---- MODULE Spec2Model ----
(***************************************************************************)
(* Model of the realtime client: the WebSocketManager connection state     *)
(* machine (src/js/websocket.js), its reconnection policy, and the parts   *)
(* of the coordinator (src/js/app.js) and of the capture pipeline          *)
(* (src/js/audioManager.js) that its callbacks run.                        *)
(*                                                                         *)
(* Every action is one task of the single-threaded event loop: a public    *)
(* method call, a channel event, a timer expiry or a device callback, run  *)
(* to completion together with every callback it invokes.                  *)
(***************************************************************************)
EXTENDS Integers, Sequences, FiniteSets, Bags, TLC

(* ---------------------------- bounds ----------------------------------- *)
\* channels (new WebSocket) created over one run of the whole machine
MaxChan == 2
\* channels created over one run of the connection machine alone
ConnChans == 6
\* reconnect timers pending at once
MaxTimers == 2
\* value at which the event id counter stops the model
MaxEventId == 3
\* appended-but-uncommitted frames the model lets accumulate
MaxPending == 2
\* getUserMedia requests in flight at once
MaxPendingStarts == 1
\* getUserMedia requests in flight at once when the pipeline is driven alone
CapStarts == 2
\* capture streams held open at once
MaxStreams == 2
\* audio chunks handed to the playback queue over one run
MaxFrames == 3
\* clearAudioQueue() calls over one run
MaxClears == 1
\* samples in a frame given to the sample codec
MaxSamples == 2
\* bytes in a buffer given to the text codec
MaxBytes == 3

(* ------------------------ program constants ---------------------------- *)
maxReconnectAttempts == 5
reconnectDelay == 2000
\* Math.pow(1.5, n) is computed as BackoffNum^n / BackoffDen^n
BackoffNum == 3
BackoffDen == 2
\* close code of an intentional (normal) closure
NormalClosure == 1000
AbnormalClosure == 1006

Null == "null"
NoSocket == 0

SessionIds == {"sess_1"}
ConversationIds == {"conv_1"}
ResponseIds == {"resp_1", "resp_2"}
\* captured PCM16 frames (non-empty Int16Array) and inbound audio payloads
Frames == {"F1", "F2"}
CloseCodes == {NormalClosure, AbnormalClosure}

VARIABLES
  \* WebSocketManager fields
  socket, isConnected, isConnecting, eventId, reconnectAttempts,
  sessionId, conversationId, currentResponseId, pendingAudioBuffers,
  \* host runtime: the WebSocket objects created so far and the pending timers
  chan, nChan, timers,
  \* AudioManager.isRecording, getUserMedia requests in flight
  amIsRecording, pendingStarts,
  \* host runtime: MediaStreams acquired whose tracks are not stopped, and
  \* processor nodes still connected
  liveStreams, liveNodes,
  \* app.js closure state
  appIsRecording, audioBufferHasData,
  \* AudioManager playback fields; a queued chunk is named by its arrival number
  audioQueue, isPlaying,
  \* host runtime: playNextAudioChunk calls suspended at an await, and buffer
  \* sources started and not yet ended
  awaiting, sources,
  \* record of the playback run: chunks whose source was started, in start
  \* order; chunks lost to an exception; chunks enqueued; clear calls
  rendered, failed, nEnq, nClear,
  \* what the last task did: its name and inputs, the messages it put on the
  \* wire and the WebSocketManager callbacks it invoked
  last, out, cb,
  \* the AudioManager callbacks the last task invoked
  acb,
  \* the buffer a codec function is applied to, and what it has become
  codec

wsVars == <<socket, isConnected, isConnecting, eventId, reconnectAttempts,
            sessionId, conversationId, currentResponseId, pendingAudioBuffers>>
envVars == <<chan, nChan, timers>>
recVars == <<amIsRecording, pendingStarts, appIsRecording, audioBufferHasData>>
playVars == <<audioQueue, isPlaying, awaiting, sources, rendered, failed, nEnq, nClear>>
capVars == <<liveStreams, liveNodes>>
vars == <<wsVars, envVars, recVars, capVars, playVars, last, out, cb, acb, codec>>

ChanIds == 1..(IF ConnChans > MaxChan THEN ConnChans ELSE MaxChan)

(* ----------------------- pure helpers ---------------------------------- *)
RECURSIVE Pow(_, _)
Pow(b, e) == IF e = 0 THEN 1 ELSE b * Pow(b, e - 1)

\* BackoffDelay with the exponent taken from the incremented counter itself
BackoffDelay_expN(n) ==
  (reconnectDelay * Pow(BackoffNum, n)) \div Pow(BackoffDen, n)

\* delay computed by attemptReconnect for the (already incremented) attempt n
BackoffDelay(n) ==
  (reconnectDelay * Pow(BackoffNum, n - 1)) \div Pow(BackoffDen, n - 1)


(* ------------------- the program state as one value -------------------- *)
\* The handlers below are functions from state to state so that a handler
\* can run the callbacks it invokes before the task ends.
Cur ==
  [socket |-> socket, isConnected |-> isConnected, isConnecting |-> isConnecting,
   eventId |-> eventId, reconnectAttempts |-> reconnectAttempts,
   sessionId |-> sessionId, conversationId |-> conversationId,
   currentResponseId |-> currentResponseId,
   pendingAudioBuffers |-> pendingAudioBuffers,
   chan |-> chan, nChan |-> nChan, timers |-> timers,
   amIsRecording |-> amIsRecording, pendingStarts |-> pendingStarts,
   appIsRecording |-> appIsRecording, audioBufferHasData |-> audioBufferHasData,
   audioQueue |-> audioQueue, isPlaying |-> isPlaying,
   awaiting |-> awaiting, sources |-> sources,
   rendered |-> rendered, failed |-> failed, nEnq |-> nEnq, nClear |-> nClear,
   liveStreams |-> liveStreams, liveNodes |-> liveNodes,
   codec |-> codec,
   out |-> <<>>, cb |-> <<>>, acb |-> <<>>]

Apply(s) ==
  /\ socket' = s.socket
  /\ isConnected' = s.isConnected
  /\ isConnecting' = s.isConnecting
  /\ eventId' = s.eventId
  /\ reconnectAttempts' = s.reconnectAttempts
  /\ sessionId' = s.sessionId
  /\ conversationId' = s.conversationId
  /\ currentResponseId' = s.currentResponseId
  /\ pendingAudioBuffers' = s.pendingAudioBuffers
  /\ chan' = s.chan
  /\ nChan' = s.nChan
  /\ timers' = s.timers
  /\ amIsRecording' = s.amIsRecording
  /\ pendingStarts' = s.pendingStarts
  /\ appIsRecording' = s.appIsRecording
  /\ audioBufferHasData' = s.audioBufferHasData
  /\ audioQueue' = s.audioQueue
  /\ isPlaying' = s.isPlaying
  /\ awaiting' = s.awaiting
  /\ sources' = s.sources
  /\ rendered' = s.rendered
  /\ failed' = s.failed
  /\ nEnq' = s.nEnq
  /\ nClear' = s.nClear
  /\ liveStreams' = s.liveStreams
  /\ liveNodes' = s.liveNodes
  /\ acb' = s.acb
  /\ codec' = s.codec
  /\ out' = s.out
  /\ cb' = s.cb

NoMsg == [parse |-> FALSE, type |-> "", fields |-> FALSE, val |-> Null]
\* the record kept of a task: its name, its inputs (close code, timer delay,
\* inbound message or frame, whether the host call it makes succeeds) and the
\* attempt counter, session id and pending counter it started from
Op(name) ==
  [op |-> name, code |-> 0, d |-> 0, m |-> NoMsg, ok |-> TRUE,
   ra |-> reconnectAttempts, sess |-> sessionId, pend |-> pendingAudioBuffers]

\* a WebSocketManager / AudioManager callback invocation
Call(name, val, fin) == [name |-> name, val |-> val, fin |-> fin]
Notify(s, name) == [s EXCEPT !.cb = Append(@, Call(name, Null, FALSE))]

(* ------------------------- outbound messages --------------------------- *)
\* generateEventId: `evt_${Date.now()}_${++this.eventId}`; the model keeps the
\* sequence number, the part the program controls.
generateEventId(s) == s.eventId + 1

OutMsg(type, val, id, c) == [type |-> type, val |-> val, event_id |-> id, chan |-> c]

\* sendMessage that stamps the message without advancing the counter
sendMessage_noCount(s, type, val) ==
  IF ~s.isConnected \/ s.socket = NoSocket
  THEN s
  ELSE [s EXCEPT !.out = Append(@, OutMsg(type, val, generateEventId(s), s.socket))]

\* sendMessage without its connection guard
sendMessage_noGuard(s, type, val) ==
  [s EXCEPT !.eventId = generateEventId(s),
            !.out = Append(@, OutMsg(type, val, generateEventId(s), s.socket))]

\* sendMessage: refused unless connected with a channel; otherwise stamps the
\* message with a fresh event id and writes it on the current channel.
sendMessage(s, type, val) ==
  IF ~s.isConnected \/ s.socket = NoSocket
  THEN s
  ELSE [s EXCEPT !.eventId = generateEventId(s),
                 !.out = Append(@, OutMsg(type, val, generateEventId(s), s.socket))]

\* TRUE when sendMessage returns a truthy event id
sendSucceeds(s) == s.isConnected /\ s.socket # NoSocket

updateSession(s) == sendMessage(s, "session.update", "pcm16")

\* appendAudioBuffer that counts the frame before testing the connection
appendAudioBuffer_countsFirst(s, frame) ==
  LET t == [s EXCEPT !.pendingAudioBuffers = @ + 1]
  IN IF ~s.isConnected THEN t ELSE sendMessage(t, "input_audio_buffer.append", frame)

\* appendAudioBuffer(audioData)
appendAudioBuffer(s, frame) ==
  IF ~s.isConnected
  THEN s
  ELSE sendMessage([s EXCEPT !.pendingAudioBuffers = @ + 1],
                   "input_audio_buffer.append", frame)

\* commitAudioBuffer without the test of the pending counter
commitAudioBuffer_noGuard(s) ==
  sendMessage([s EXCEPT !.pendingAudioBuffers = 0], "input_audio_buffer.commit", Null)

\* commitAudioBuffer()
commitAudioBuffer(s) ==
  IF s.pendingAudioBuffers <= 0
  THEN s
  ELSE sendMessage([s EXCEPT !.pendingAudioBuffers = 0],
                   "input_audio_buffer.commit", Null)

\* clearAudioBuffer that leaves the pending counter alone
clearAudioBuffer_keepsCounter(s) == sendMessage(s, "input_audio_buffer.clear", Null)

\* clearAudioBuffer()
clearAudioBuffer(s) ==
  sendMessage([s EXCEPT !.pendingAudioBuffers = 0], "input_audio_buffer.clear", Null)

\* createResponse that takes the request for the acknowledgment
createResponse_setsId(s) ==
  sendMessage([s EXCEPT !.currentResponseId = "resp_1"], "response.create", "audio+text")

\* createResponse()
createResponse(s) == sendMessage(s, "response.create", "audio+text")

\* cancelResponse without the test of the active response
cancelResponse_noGuard(s) == sendMessage(s, "response.cancel", s.currentResponseId)

\* cancelResponse(): the message carries response_id = currentResponseId
cancelResponse(s) ==
  IF s.currentResponseId = Null
  THEN s
  ELSE sendMessage(s, "response.cancel", s.currentResponseId)

(* ------------------ capture pipeline and coordinator ------------------- *)
\* onRecordingStop that never commits
onRecordingStop_noCommit(s) ==
  [s EXCEPT !.appIsRecording = FALSE,
            !.acb = Append(@, Call("onRecordingStop", Null, FALSE))]

\* app.js audioManager.onRecordingStop
onRecordingStop(s) ==
  LET t == [s EXCEPT !.appIsRecording = FALSE,
                     !.acb = Append(@, Call("onRecordingStop", Null, FALSE))]
  IN IF t.audioBufferHasData THEN commitAudioBuffer(t) ELSE t

\* AudioManager.stopRecording
amStopRecording(s) ==
  IF ~s.amIsRecording
  THEN s
  ELSE onRecordingStop([s EXCEPT !.amIsRecording = FALSE,
                                 !.liveNodes = @ - 1,
                                 !.liveStreams = @ - 1])

\* app.js stopRecording()
appStopRecording(s) == IF ~s.appIsRecording THEN s ELSE amStopRecording(s)

\* app.js webSocketManager.onDisconnect
onDisconnect(s) ==
  LET t == Notify(s, "onDisconnect")
  IN IF t.appIsRecording THEN appStopRecording(t) ELSE t

\* app.js webSocketManager.onConnect (button state only)
onConnect(s) == Notify(s, "onConnect")

\* app.js audioManager.onRecordingStart
onRecordingStart(s) ==
  [s EXCEPT !.appIsRecording = TRUE, !.audioBufferHasData = FALSE,
            !.acb = Append(@, Call("onRecordingStart", Null, FALSE))]

\* onAudioData that forwards a frame other than the one it was given
onAudioData_wrongFrame(s, frame) ==
  LET r == [s EXCEPT !.acb = Append(@, Call("onAudioData", frame, FALSE))]
  IN IF r.isConnected /\ r.appIsRecording
     THEN LET t == appendAudioBuffer(r, "F1")
          IN IF sendSucceeds(r) THEN [t EXCEPT !.audioBufferHasData = TRUE] ELSE t
     ELSE r

\* app.js audioManager.onAudioData
onAudioData(s, frame) ==
  LET r == [s EXCEPT !.acb = Append(@, Call("onAudioData", frame, FALSE))]
  IN IF r.isConnected /\ r.appIsRecording
     THEN LET t == appendAudioBuffer(r, frame)
          IN IF sendSucceeds(r) THEN [t EXCEPT !.audioBufferHasData = TRUE] ELSE t
     ELSE r

\* processorNode.onaudioprocess that forwards whatever the recording flag says
onaudioprocess_noGuard(s, frame) == onAudioData(s, frame)

\* processorNode.onaudioprocess
onaudioprocess(s, frame) ==
  IF ~s.amIsRecording THEN s ELSE onAudioData(s, frame)

\* AudioManager.startRecording without the test of isRecording
amStartRecording_noGuard(s) == [s EXCEPT !.pendingStarts = @ + 1]

\* AudioManager.startRecording up to its await of getUserMedia
amStartRecording(s) ==
  IF s.amIsRecording THEN s ELSE [s EXCEPT !.pendingStarts = @ + 1]

\* AudioManager.startRecording that goes on after a rejected getUserMedia
amStartResolved_ignoresFailure(s, ok) ==
  LET t == [s EXCEPT !.pendingStarts = @ - 1]
  IN onRecordingStart([t EXCEPT !.liveStreams = @ + 1,
                                !.liveNodes = @ + 1,
                                !.amIsRecording = TRUE])

\* AudioManager.startRecording from the await on.  ok = FALSE is getUserMedia
\* rejecting (permission denied, no device): the catch returns false.
\* Otherwise the stream is kept in this.mediaStream, a processor node is
\* connected and kept in this.recorder, both replacing whatever reference was
\* there.
amStartResolved(s, ok) ==
  LET t == [s EXCEPT !.pendingStarts = @ - 1]
  IN IF ~ok
     THEN t
     ELSE onRecordingStart([t EXCEPT !.liveStreams = @ + 1,
                                     !.liveNodes = @ + 1,
                                     !.amIsRecording = TRUE])

(* ----------------------- playback queue -------------------------------- *)
\* playNextAudioChunk from its last await on: decode the chunk, build the
\* buffer source, set onended and start it.  ok = FALSE is an exception in
\* that block (no audio context, a chunk that does not decode, a buffer the
\* context refuses), which the catch turns into isPlaying = false.
startSource(s, k, ok) ==
  IF ok
  THEN [s EXCEPT !.sources = @ \cup {k}, !.rendered = Append(@, k)]
  ELSE [s EXCEPT !.isPlaying = FALSE, !.failed = @ \cup {k}]

\* playNextAudioChunk that takes the newest chunk instead of the oldest
playNextAudioChunk_takesLast(s, susp, ok) ==
  IF s.audioQueue = <<>>
  THEN [s EXCEPT !.isPlaying = FALSE]
  ELSE LET k == s.audioQueue[Len(s.audioQueue)]
           t == [s EXCEPT !.isPlaying = TRUE,
                          !.audioQueue = SubSeq(@, 1, Len(@) - 1)]
       IN IF susp THEN [t EXCEPT !.awaiting = @ \cup {k}] ELSE startSource(t, k, ok)

\* playNextAudioChunk().  susp = TRUE is the call suspending at one of its
\* awaits (initialize(), audioContext.resume()) after the shift.
playNextAudioChunk(s, susp, ok) ==
  IF s.audioQueue = <<>>
  THEN [s EXCEPT !.isPlaying = FALSE]
  ELSE LET k == Head(s.audioQueue)
           t == [s EXCEPT !.isPlaying = TRUE, !.audioQueue = Tail(@)]
       IN IF susp THEN [t EXCEPT !.awaiting = @ \cup {k}] ELSE startSource(t, k, ok)

\* source.onended of the source playing chunk k
onended(s, k, susp, ok) ==
  playNextAudioChunk([s EXCEPT !.sources = @ \ {k}], susp, ok)

\* enqueueAudio(audioData)
enqueueAudio(s, susp, ok) ==
  LET t == [s EXCEPT !.nEnq = @ + 1, !.audioQueue = Append(@, s.nEnq + 1)]
  IN IF ~t.isPlaying THEN playNextAudioChunk(t, susp, ok) ELSE t

\* clearAudioQueue()
clearAudioQueue(s) ==
  [s EXCEPT !.audioQueue = <<>>, !.isPlaying = FALSE, !.nClear = @ + 1]

\* onAudioResponse that enqueues on the end-of-audio marker too
onAudioResponse_enqueuesOnDone(s, hasData, susp, ok) == enqueueAudio(s, susp, ok)

\* app.js webSocketManager.onAudioResponse(audioData, isDone)
onAudioResponse(s, hasData, susp, ok) ==
  IF hasData THEN enqueueAudio(s, susp, ok) ELSE s

(* ----------------------- WebSocketManager ------------------------------- *)
NewChannel == [st |-> "connecting", attached |-> TRUE]

\* effect of socket.close() on the readyState of a channel
closeCall(st) == IF st \in {"connecting", "open"} THEN "closing" ELSE st

\* connect() without its guard
connect_noGuard(s, ok) ==
  IF ok
  THEN [s EXCEPT !.isConnecting = TRUE,
                 !.nChan = @ + 1,
                 !.socket = s.nChan + 1,
                 !.chan = [c \in DOMAIN @ |->
                             IF c = s.nChan + 1 THEN NewChannel ELSE @[c]]]
  ELSE [s EXCEPT !.isConnecting = FALSE]

\* connect() guarded by isConnected alone
connect_connectedOnly(s, ok) ==
  IF s.isConnected THEN s ELSE connect_noGuard(s, ok)

\* connect(); ok = FALSE is `new WebSocket` throwing
connect(s, ok) ==
  IF s.isConnected \/ s.isConnecting
  THEN s
  ELSE IF ok
       THEN [s EXCEPT !.isConnecting = TRUE,
                      !.nChan = @ + 1,
                      !.socket = s.nChan + 1,
                      !.chan = [c \in DOMAIN @ |->
                                  IF c = s.nChan + 1 THEN NewChannel ELSE @[c]]]
       ELSE [s EXCEPT !.isConnecting = FALSE]

\* disconnect() that also forgets the reconnect attempts
disconnect_resetsAttempts(s) ==
  IF ~s.isConnected /\ s.socket = NoSocket
  THEN s
  ELSE LET t1 == IF s.socket # NoSocket
                 THEN [s EXCEPT !.chan[s.socket] =
                                   [st |-> closeCall(@.st), attached |-> FALSE],
                                !.socket = NoSocket]
                 ELSE s
           t2 == [t1 EXCEPT !.isConnected = FALSE,
                            !.isConnecting = FALSE,
                            !.reconnectAttempts = 0,
                            !.sessionId = Null,
                            !.conversationId = Null,
                            !.currentResponseId = Null,
                            !.pendingAudioBuffers = 0]
       IN onDisconnect(t2)

\* disconnect() that leaves the session identity alone
disconnect_keepsIdentity(s) ==
  IF ~s.isConnected /\ s.socket = NoSocket
  THEN s
  ELSE LET t1 == IF s.socket # NoSocket
                 THEN [s EXCEPT !.chan[s.socket] =
                                   [st |-> closeCall(@.st), attached |-> FALSE],
                                !.socket = NoSocket]
                 ELSE s
           t2 == [t1 EXCEPT !.isConnected = FALSE,
                            !.isConnecting = FALSE,
                            !.pendingAudioBuffers = 0]
       IN onDisconnect(t2)

\* disconnect() that closes the channel with its handlers still attached
disconnect_keepsHandlers(s) ==
  IF ~s.isConnected /\ s.socket = NoSocket
  THEN s
  ELSE LET t1 == IF s.socket # NoSocket
                 THEN [s EXCEPT !.chan[s.socket] =
                                   [st |-> closeCall(@.st),
                                    attached |-> closeCall(@.st) = "closing"],
                                !.socket = NoSocket]
                 ELSE s
           t2 == [t1 EXCEPT !.isConnected = FALSE,
                            !.isConnecting = FALSE,
                            !.sessionId = Null,
                            !.conversationId = Null,
                            !.currentResponseId = Null,
                            !.pendingAudioBuffers = 0]
       IN onDisconnect(t2)

\* disconnect() without its guard
disconnect_noGuard(s) ==
  LET t1 == IF s.socket # NoSocket
            THEN [s EXCEPT !.chan[s.socket] =
                              [st |-> closeCall(@.st), attached |-> FALSE],
                           !.socket = NoSocket]
            ELSE s
      t2 == [t1 EXCEPT !.isConnected = FALSE,
                       !.isConnecting = FALSE,
                       !.sessionId = Null,
                       !.conversationId = Null,
                       !.currentResponseId = Null,
                       !.pendingAudioBuffers = 0]
  IN onDisconnect(t2)

\* disconnect()
disconnect(s) ==
  IF ~s.isConnected /\ s.socket = NoSocket
  THEN s
  ELSE LET t1 == IF s.socket # NoSocket
                 THEN [s EXCEPT !.chan[s.socket] =
                                   [st |-> closeCall(@.st), attached |-> FALSE],
                                !.socket = NoSocket]
                 ELSE s
           t2 == [t1 EXCEPT !.isConnected = FALSE,
                            !.isConnecting = FALSE,
                            !.sessionId = Null,
                            !.conversationId = Null,
                            !.currentResponseId = Null,
                            !.pendingAudioBuffers = 0]
       IN onDisconnect(t2)

\* handleOpen() that keeps the attempt counter
handleOpen_noReset(s) ==
  onConnect([s EXCEPT !.isConnected = TRUE, !.isConnecting = FALSE])

\* handleOpen()
handleOpen(s) ==
  onConnect([s EXCEPT !.isConnected = TRUE,
                      !.isConnecting = FALSE,
                      !.reconnectAttempts = 0])

\* attemptReconnect() that arms the timer without counting the attempt
attemptReconnect_noCount(s) ==
  [s EXCEPT !.timers = @ (+) SetToBag({BackoffDelay(s.reconnectAttempts + 1)})]

\* attemptReconnect(): the timer it arms is recorded by its delay
attemptReconnect(s) ==
  LET n == s.reconnectAttempts + 1
  IN [s EXCEPT !.reconnectAttempts = n,
               !.timers = @ (+) SetToBag({BackoffDelay(n)})]

\* handleClose(event) without the attempt ceiling
handleClose_noCeiling(s, code) ==
  LET t == [s EXCEPT !.isConnected = FALSE, !.isConnecting = FALSE]
  IN IF code # NormalClosure THEN attemptReconnect(t) ELSE onDisconnect(t)

\* handleClose(event)
handleClose(s, code) ==
  LET t == [s EXCEPT !.isConnected = FALSE, !.isConnecting = FALSE]
  IN IF code # NormalClosure /\ t.reconnectAttempts < maxReconnectAttempts
     THEN attemptReconnect(t)
     ELSE onDisconnect(t)

\* the setTimeout callback armed by attemptReconnect
retryCallback(s, ok) ==
  IF ~s.isConnected /\ ~s.isConnecting THEN connect(s, ok) ELSE s

\* handleSessionCreated that records the id and sends no configuration
handleSessionCreated_noUpdate(s, m) == [s EXCEPT !.sessionId = m.val]

\* handleSessionCreated(data)
handleSessionCreated(s, m) == updateSession([s EXCEPT !.sessionId = m.val])

\* handleConversationCreated(data)
handleConversationCreated(s, m) == [s EXCEPT !.conversationId = m.val]

\* inbound message types the switch of handleMessage has a case for
ConsumedTypes ==
  {"session.created", "conversation.created", "input_audio_buffer.committed",
   "response.created", "response.text.delta", "response.text.done",
   "response.audio.delta", "response.audio.done", "error"}

\* handleMessage whose default case forwards the message as text
handleMessage_defaultForwards(s, m) ==
  IF ~m.parse THEN s
  ELSE CASE m.type = "session.created" ->
              IF m.fields THEN handleSessionCreated(s, m) ELSE s
         [] m.type = "conversation.created" ->
              IF m.fields THEN handleConversationCreated(s, m) ELSE s
         [] m.type = "input_audio_buffer.committed" -> s
         [] m.type = "response.created" ->
              IF m.fields THEN [s EXCEPT !.currentResponseId = m.val] ELSE s
         [] m.type = "response.text.delta" ->
              [s EXCEPT !.cb = Append(@, Call("onTextResponse", m.val, FALSE))]
         [] m.type = "response.text.done" ->
              [s EXCEPT !.cb = Append(@, Call("onTextResponse", m.val, TRUE))]
         [] m.type = "response.audio.delta" ->
              IF m.fields
              THEN [s EXCEPT !.cb = Append(@, Call("onAudioResponse", m.val, FALSE))]
              ELSE s
         [] m.type = "response.audio.done" ->
              [s EXCEPT !.cb = Append(@, Call("onAudioResponse", Null, TRUE))]
         [] m.type = "error" -> s
         [] OTHER -> [s EXCEPT !.cb = Append(@, Call("onTextResponse", m.val, FALSE))]

\* handleMessage that gives up the channel on a server error message
handleMessage_errorCloses(s, m) ==
  IF ~m.parse THEN s
  ELSE CASE m.type = "session.created" ->
              IF m.fields THEN handleSessionCreated(s, m) ELSE s
         [] m.type = "conversation.created" ->
              IF m.fields THEN handleConversationCreated(s, m) ELSE s
         [] m.type = "input_audio_buffer.committed" -> s
         [] m.type = "response.created" ->
              IF m.fields THEN [s EXCEPT !.currentResponseId = m.val] ELSE s
         [] m.type = "response.text.delta" ->
              [s EXCEPT !.cb = Append(@, Call("onTextResponse", m.val, FALSE))]
         [] m.type = "response.text.done" ->
              [s EXCEPT !.cb = Append(@, Call("onTextResponse", m.val, TRUE))]
         [] m.type = "response.audio.delta" ->
              IF m.fields
              THEN [s EXCEPT !.cb = Append(@, Call("onAudioResponse", m.val, FALSE))]
              ELSE s
         [] m.type = "response.audio.done" ->
              [s EXCEPT !.cb = Append(@, Call("onAudioResponse", Null, TRUE))]
         [] m.type = "error" -> disconnect(s)
         [] OTHER -> s

\* handleMessage(event).  m.parse = FALSE is JSON.parse throwing; m.fields =
\* FALSE is a message without the object the case dereferences (data.session,
\* data.conversation, data.response, data.error) or with an empty delta.  Any
\* exception is caught by the handler's try/catch.
handleMessage(s, m) ==
  IF ~m.parse THEN s
  ELSE CASE m.type = "session.created" ->
              IF m.fields THEN handleSessionCreated(s, m) ELSE s
         [] m.type = "conversation.created" ->
              IF m.fields THEN handleConversationCreated(s, m) ELSE s
         [] m.type = "input_audio_buffer.committed" -> s
         [] m.type = "response.created" ->
              IF m.fields THEN [s EXCEPT !.currentResponseId = m.val] ELSE s
         [] m.type = "response.text.delta" ->
              [s EXCEPT !.cb = Append(@, Call("onTextResponse", m.val, FALSE))]
         [] m.type = "response.text.done" ->
              [s EXCEPT !.cb = Append(@, Call("onTextResponse", m.val, TRUE))]
         [] m.type = "response.audio.delta" ->
              IF m.fields
              THEN [s EXCEPT !.cb = Append(@, Call("onAudioResponse", m.val, FALSE))]
              ELSE s
         [] m.type = "response.audio.done" ->
              [s EXCEPT !.cb = Append(@, Call("onAudioResponse", Null, TRUE))]
         [] m.type = "error" -> s
         [] OTHER -> s

\* handleMessage(event) together with the coordinator's onAudioResponse
\* callback it invokes: the callback gets the decoded bytes of a delta, or
\* null at the end of the audio
handleMessagePlayed(s, m, susp, ok) ==
  LET t == handleMessage(s, m)
  IN IF t.cb # <<>> /\ t.cb[1].name = "onAudioResponse"
     THEN onAudioResponse(t, t.cb[1].val # Null, susp, ok)
     ELSE t

(* ------------------------------ codec ---------------------------------- *)
\* 0x8000 and 0x7fff, the scales of negative and non-negative samples
NegScale == 32768
PosScale == 32767

\* a Float32 sample: the rational n / d, d > 0
Sample(n, d) == [n |-> n, d |-> d]

Abs(v) == IF v < 0 THEN -v ELSE v

RECURSIVE Gcd(_, _)
Gcd(a, b) == IF b = 0 THEN a ELSE Gcd(b, a % b)

\* the value of the division n / d, in lowest terms
Quotient(n, d) == LET g == Gcd(Abs(n), d) IN Sample(n \div g, d \div g)

\* storing a number in an Int16Array: the fraction is dropped (toward zero)
\* and the integer is taken modulo 2^16
ToInt16(n, d) ==
  LET t == IF n < 0 THEN -((-n) \div d) ELSE n \div d
  IN ((t + 32768) % 65536) - 32768

\* Math.max(-1, Math.min(1, x))
clampSample(x) ==
  IF x.n > x.d THEN Sample(1, 1)
  ELSE IF x.n < -x.d THEN Sample(-1, 1)
  ELSE x

\* floatTo16BitPCM(input)
floatTo16BitPCM(input) ==
  [i \in DOMAIN input |->
     LET s == clampSample(input[i])
     IN IF s.n < 0 THEN ToInt16(s.n * NegScale, s.d)
        ELSE ToInt16(s.n * PosScale, s.d)]

\* int16ToFloat32(input) for an Int16Array
int16ToFloat32(input) ==
  [i \in DOMAIN input |->
     Quotient(input[i], IF input[i] < 0 THEN NegScale ELSE PosScale)]

\* the two bytes of an Int16 element in the buffer (two's complement, low
\* byte first)
Int16Bytes(q) == LET u == (q + 65536) % 65536 IN <<u % 256, u \div 256>>

\* new Uint8Array(buffer.buffer, buffer.byteOffset, buffer.byteLength)
RECURSIVE ViewBytes(_)
ViewBytes(pcm) ==
  IF pcm = <<>> THEN <<>> ELSE Int16Bytes(Head(pcm)) \o ViewBytes(Tail(pcm))

\* a base64 text is the sequence of its characters: the 64 digits by their
\* value and the padding character
Pad == 64

\* window.btoa of the binary string whose character codes are the bytes
RECURSIVE btoa(_)
btoa(b) ==
  IF Len(b) = 0 THEN <<>>
  ELSE IF Len(b) = 1
  THEN <<b[1] \div 4, (b[1] % 4) * 16, Pad, Pad>>
  ELSE IF Len(b) = 2
  THEN <<b[1] \div 4, (b[1] % 4) * 16 + b[2] \div 16, (b[2] % 16) * 4, Pad>>
  ELSE <<b[1] \div 4, (b[1] % 4) * 16 + b[2] \div 16,
         (b[2] % 16) * 4 + b[3] \div 64, b[3] % 64>>
       \o btoa(SubSeq(b, 4, Len(b)))

\* the digits of a base64 text, its padding removed
RECURSIVE Digits(_)
Digits(t) ==
  IF t # <<>> /\ t[Len(t)] = Pad THEN Digits(SubSeq(t, 1, Len(t) - 1)) ELSE t

\* the character codes of the binary string a run of base64 digits decodes
\* to; a single leftover digit is not valid base64 (atob throws)
RECURSIVE DecodeDigits(_)
DecodeDigits(t) ==
  IF Len(t) <= 1 THEN <<>>
  ELSE IF Len(t) = 2
  THEN <<t[1] * 4 + t[2] \div 16>>
  ELSE IF Len(t) = 3
  THEN <<t[1] * 4 + t[2] \div 16, (t[2] % 16) * 16 + t[3] \div 4>>
  ELSE <<t[1] * 4 + t[2] \div 16, (t[2] % 16) * 16 + t[3] \div 4,
         (t[3] % 4) * 64 + t[4]>>
       \o DecodeDigits(SubSeq(t, 5, Len(t)))

\* window.atob
atob(t) == DecodeDigits(Digits(t))

\* arrayToBase64 that copies the elements of an Int16Array into the byte
\* array instead of viewing its buffer
arrayToBase64_copiesValues(kind, buffer) ==
  btoa(IF kind = "Int16Array"
       THEN [i \in DOMAIN buffer |-> (buffer[i] + 65536) % 256]
       ELSE buffer)

\* WebSocketManager.arrayToBase64(buffer)
arrayToBase64(kind, buffer) ==
  btoa(IF kind = "Int16Array" THEN ViewBytes(buffer) ELSE buffer)

\* WebSocketManager.base64ToUint8Array(base64)
base64ToUint8Array(base64) ==
  LET binary == atob(base64) IN [i \in 1..Len(binary) |-> binary[i]]

NoBuffer ==
  [stage |-> "none", kind |-> "none", input |-> <<>>, pcm |-> <<>>,
   floats |-> <<>>, bytes |-> <<>>, text |-> <<>>, back |-> <<>>]

(* --------------------------- inputs ------------------------------------ *)
Msg(type, fields, val) == [parse |-> TRUE, type |-> type, fields |-> fields, val |-> val]

AudioTypes == {"response.audio.delta", "response.audio.done"}

Inbound ==
  {NoMsg}
  \cup {Msg("session.created", TRUE, v) : v \in SessionIds}
  \cup {Msg("conversation.created", TRUE, v) : v \in ConversationIds}
  \cup {Msg("response.created", TRUE, v) : v \in ResponseIds}
  \cup {Msg("response.audio.delta", TRUE, v) : v \in Frames}
  \cup {Msg(t, FALSE, Null) :
          t \in {"session.created", "conversation.created", "response.created",
                 "response.audio.delta", "error"}}
  \cup {Msg(t, TRUE, "txt") :
          t \in {"response.text.delta", "response.text.done", "error"}}
  \cup {Msg(t, TRUE, Null) :
          t \in {"input_audio_buffer.committed", "response.audio.done",
                 "rate_limits.updated"}}

\* Float32 samples given to the codec: out of range, at the ends of the
\* range, negative samples (decoded exactly: the divisor is a power of two)
\* and non-negative samples below 1/32767 (encoded as 0).  Other positive
\* samples decode to a quotient by 32767 that Float32 rounds.
SampleValues ==
  {Sample(n, 1) : n \in {-2, -1, 0, 1, 2}}
  \cup {Sample(-n, 65536) : n \in {1, 3, 32769, 65535}}
  \cup {Sample(n, 1073741824) : n \in {1, 32768, 32769}}

SampleFrames == UNION {[1..k -> SampleValues] : k \in 1..MaxSamples}

ByteValues == {0, 97, 128, 255}

ByteBuffers == UNION {[1..k -> ByteValues] : k \in 0..MaxBytes}

(* --------------------------- the machine ------------------------------- *)
InitProgram ==
  /\ socket = NoSocket
  /\ isConnected = FALSE
  /\ isConnecting = FALSE
  /\ eventId = 0
  /\ reconnectAttempts = 0
  /\ sessionId = Null
  /\ conversationId = Null
  /\ currentResponseId = Null
  /\ pendingAudioBuffers = 0
  /\ chan = [c \in ChanIds |-> [st |-> "none", attached |-> FALSE]]
  /\ nChan = 0
  /\ timers = EmptyBag
  /\ amIsRecording = FALSE
  /\ pendingStarts = 0
  /\ appIsRecording = FALSE
  /\ audioBufferHasData = FALSE
  /\ audioQueue = <<>>
  /\ isPlaying = FALSE
  /\ awaiting = {}
  /\ sources = {}
  /\ rendered = <<>>
  /\ failed = {}
  /\ nEnq = 0
  /\ nClear = 0
  /\ last = [op |-> "init", code |-> 0, d |-> 0, m |-> NoMsg, ok |-> TRUE,
             ra |-> 0, sess |-> Null, pend |-> 0]
  /\ liveStreams = 0
  /\ liveNodes = 0
  /\ out = <<>>
  /\ cb = <<>>
  /\ acb = <<>>

\* no codec function has been given a buffer
Init == InitProgram /\ codec = NoBuffer

\* a buffer has been handed to a codec function: a frame of captured
\* samples or a byte buffer
InitCodec ==
  /\ InitProgram
  /\ codec \in
       {[NoBuffer EXCEPT !.stage = "samples", !.input = x] : x \in SampleFrames}
       \cup {[NoBuffer EXCEPT !.stage = "bytes", !.kind = "Uint8Array", !.bytes = b] :
               b \in ByteBuffers}

\* the bounds of the model, imposed on the state a task ends in
Bounded(s) ==
  /\ BagCardinality(s.timers) <= MaxTimers
  /\ s.eventId <= MaxEventId
  /\ s.pendingAudioBuffers <= MaxPending
  /\ s.pendingStarts <= (IF CapStarts > MaxPendingStarts THEN CapStarts
                         ELSE MaxPendingStarts)
  /\ s.liveStreams <= MaxStreams
  /\ s.nEnq <= MaxFrames
  /\ s.nClear <= MaxClears

Step(s, op) == Bounded(s) /\ Apply(s) /\ last' = op

\* a caller invokes connect(); cap bounds the channels created so far
Connect(cap) ==
  \E ok \in BOOLEAN :
    /\ (isConnected \/ isConnecting) => ok
    /\ connect(Cur, ok).nChan <= cap
    /\ Step(connect(Cur, ok), [Op("connect") EXCEPT !.ok = ok])

\* a caller invokes disconnect()
Disconnect == Step(disconnect(Cur), Op("disconnect"))

\* the open event of channel c
ChanOpen(c) ==
  /\ chan[c].st = "connecting"
  /\ LET s == [Cur EXCEPT !.chan[c].st = "open"]
     IN Step(IF chan[c].attached THEN handleOpen(s) ELSE s,
             Op("open"))

\* the close event of channel c, with the close code the peer or the network
\* produced; a channel that never opened fails with an abnormal closure.  A
\* closed channel delivers no further event, so its handlers are forgotten.
ChanClose(c, code) ==
  /\ chan[c].st \in {"connecting", "open"}
  /\ chan[c].st = "connecting" => code = AbnormalClosure
  /\ LET s == [Cur EXCEPT !.chan[c] = [st |-> "closed", attached |-> FALSE]]
     IN Step(IF chan[c].attached THEN handleClose(s, code) ELSE s,
             [Op("close") EXCEPT !.code = code])

\* the close event of a channel closed by disconnect(), whatever its code:
\* disconnect() nulled the handlers, so none runs
ChanClosed(c) ==
  /\ chan[c].st = "closing"
  /\ \E code \in CloseCodes :
       LET s == [Cur EXCEPT !.chan[c] = [st |-> "closed", attached |-> FALSE]]
       IN Step(IF chan[c].attached THEN handleClose(s, code) ELSE s, Op("closed"))

\* the error event of a channel closed by disconnect() (a close() while the
\* channel was still connecting fails the connection): no handler runs
ChanErrorClosing(c) ==
  /\ chan[c].st = "closing"
  /\ Step(Cur, Op("closing-error"))

\* the error event of channel c.  The class defines handleError twice and the
\* later definition is the one in force: it logs and changes nothing.
ChanError(c) ==
  /\ chan[c].st \in {"connecting", "open"}
  /\ chan[c].attached
  /\ Step(Cur, Op("error"))

\* a message event of channel c
ChanMessage(c, m) ==
  /\ chan[c].st = "open"
  /\ chan[c].attached
  /\ Step(handleMessage(Cur, m), [Op("message") EXCEPT !.m = m])

\* a message event of channel c carrying audio, with the playback it starts
ChanMessagePlayed(c, m) ==
  /\ chan[c].st = "open"
  /\ chan[c].attached
  /\ \E susp, ok \in BOOLEAN :
       /\ (handleMessage(Cur, m).cb = <<>> \/ m.type # "response.audio.delta"
             \/ isPlaying) => (~susp /\ ok)
       /\ susp => ok
       /\ Step(handleMessagePlayed(Cur, m, susp, ok), [Op("message") EXCEPT !.m = m])

\* a reconnect timer expires
TimerFire(d, cap) ==
  /\ BagIn(d, timers)
  /\ \E ok \in BOOLEAN :
       LET s == [Cur EXCEPT !.timers = @ (-) SetToBag({d})]
       IN /\ (s.isConnected \/ s.isConnecting) => ok
          /\ retryCallback(s, ok).nChan <= cap
          /\ Step(retryCallback(s, ok), [Op("timer") EXCEPT !.d = d, !.ok = ok])

\* a caller invokes one of the outbound methods of WebSocketManager
UpdateSession == Step(updateSession(Cur), Op("updateSession"))

AppendAudioBuffer(f) ==
  Step(appendAudioBuffer(Cur, f),
       [Op("appendAudioBuffer") EXCEPT !.m = Msg("frame", TRUE, f)])

CommitAudioBuffer == Step(commitAudioBuffer(Cur), Op("commitAudioBuffer"))

ClearAudioBuffer == Step(clearAudioBuffer(Cur), Op("clearAudioBuffer"))

CreateResponse == Step(createResponse(Cur), Op("createResponse"))

CancelResponse == Step(cancelResponse(Cur), Op("cancelResponse"))

\* the start button: click handler, startRecording() of app.js and
\* AudioManager.startRecording up to its await of getUserMedia
StartRecording ==
  /\ isConnected
  /\ ~appIsRecording
  /\ amStartRecording(Cur).pendingStarts <= MaxPendingStarts
  /\ Step(amStartRecording(clearAudioBuffer(Cur)), Op("startRecording"))

\* getUserMedia settles: the rest of AudioManager.startRecording
StartSettled(ok) ==
  /\ pendingStarts > 0
  /\ Step(amStartResolved(Cur, ok), [Op("startSettled") EXCEPT !.ok = ok])

\* the stop button
StopRecording ==
  /\ appIsRecording
  /\ Step(appStopRecording(Cur), Op("stopRecording"))

\* an audioprocess event of a connected processor node
DeviceFrame(f) ==
  /\ liveNodes > 0
  /\ Step(onaudioprocess(Cur, f), [Op("frame") EXCEPT !.m = Msg("frame", TRUE, f)])

\* a caller invokes AudioManager.startRecording() / stopRecording() directly
AmStartRecording == Step(amStartRecording(Cur), Op("amStartRecording"))

AmStopRecording == Step(amStopRecording(Cur), Op("amStopRecording"))

\* the coordinator's onAudioResponse callback: a decoded chunk, or the end of
\* the audio stream (no chunk)
AudioResponse ==
  \E hasData, susp, ok \in BOOLEAN :
    /\ (~hasData \/ isPlaying) => (~susp /\ ok)
    /\ susp => ok
    /\ Step(onAudioResponse(Cur, hasData, susp, ok),
            [Op("audioResponse") EXCEPT !.ok = hasData])

\* a caller invokes clearAudioQueue()
ClearAudioQueue == Step(clearAudioQueue(Cur), Op("clearAudioQueue"))

\* the ended event of the source playing chunk k
SourceEnded(k) ==
  /\ k \in sources
  /\ \E susp, ok \in BOOLEAN :
       /\ audioQueue = <<>> => (~susp /\ ok)
       /\ susp => ok
       /\ Step(onended(Cur, k, susp, ok), [Op("ended") EXCEPT !.d = k])

\* a suspended playNextAudioChunk resumes with the chunk k it had shifted
PlayResumed(k) ==
  /\ k \in awaiting
  /\ \E ok \in BOOLEAN :
       Step(startSource([Cur EXCEPT !.awaiting = @ \ {k}], k, ok),
            [Op("resumed") EXCEPT !.d = k, !.ok = ok])

Next ==
  \/ Connect(MaxChan)
  \/ Disconnect
  \/ \E c \in ChanIds : ChanOpen(c)
  \/ \E c \in ChanIds, code \in CloseCodes : ChanClose(c, code)
  \/ \E c \in ChanIds : ChanClosed(c)
  \/ \E c \in ChanIds : ChanErrorClosing(c)
  \/ \E c \in ChanIds : ChanError(c)
  \/ \E c \in ChanIds, m \in Inbound : ChanMessage(c, m)
  \/ \E d \in BagToSet(timers) : TimerFire(d, MaxChan)
  \/ StartRecording
  \/ \E ok \in BOOLEAN : StartSettled(ok)
  \/ StopRecording
  \/ \E f \in Frames : DeviceFrame(f)

Spec == Init /\ [][Next]_vars

\* The connection machine alone: callers, channel events and timers, with no
\* inbound message and no recording.  None of the actions left out writes a
\* connection flag, the channel reference, the attempt counter or a timer.
NextConn ==
  \/ Connect(ConnChans)
  \/ Disconnect
  \/ \E c \in ChanIds : ChanOpen(c)
  \/ \E c \in ChanIds, code \in CloseCodes : ChanClose(c, code)
  \/ \E c \in ChanIds : ChanClosed(c)
  \/ \E c \in ChanIds : ChanErrorClosing(c)
  \/ \E c \in ChanIds : ChanError(c)
  \/ \E d \in BagToSet(timers) : TimerFire(d, ConnChans)

SpecConn == Init /\ [][NextConn]_vars

\* SpecConn on a host that delivers its events: an armed timer eventually
\* expires and a connecting channel eventually opens or closes.  Callers are
\* not obliged to call anything.
SpecConnLive ==
  /\ SpecConn
  /\ \A d \in {BackoffDelay(n) : n \in 1..maxReconnectAttempts} :
       WF_vars(TimerFire(d, ConnChans))
  /\ \A c \in ChanIds :
       WF_vars(ChanOpen(c) \/ ChanClose(c, AbnormalClosure))

\* The protocol machine driven through its public methods: any caller may
\* invoke any outbound method in any state; the capture pipeline, which calls
\* the same methods through the coordinator, is left out.
NextApi ==
  \/ Connect(MaxChan)
  \/ Disconnect
  \/ \E c \in ChanIds : ChanOpen(c)
  \/ \E c \in ChanIds, code \in CloseCodes : ChanClose(c, code)
  \/ \E c \in ChanIds : ChanClosed(c)
  \/ \E c \in ChanIds : ChanErrorClosing(c)
  \/ \E c \in ChanIds : ChanError(c)
  \/ \E c \in ChanIds, m \in Inbound : ChanMessage(c, m)
  \/ \E d \in BagToSet(timers) : TimerFire(d, MaxChan)
  \/ UpdateSession
  \/ \E f \in Frames : AppendAudioBuffer(f)
  \/ CommitAudioBuffer
  \/ ClearAudioBuffer
  \/ CreateResponse
  \/ CancelResponse

SpecApi == Init /\ [][NextApi]_vars

\* The capture pipeline driven through AudioManager's public methods, with
\* the coordinator's callbacks and a connection for the frames to go to.
NextCap ==
  \/ Connect(MaxChan)
  \/ Disconnect
  \/ \E c \in ChanIds : ChanOpen(c)
  \/ \E c \in ChanIds : ChanClosed(c)
  \/ AmStartRecording
  \/ \E ok \in BOOLEAN : StartSettled(ok)
  \/ AmStopRecording
  \/ \E f \in Frames : DeviceFrame(f)

SpecCap == Init /\ [][NextCap]_vars

\* The playback queue alone, fed by the coordinator's audio callback.
NextPlay ==
  \/ AudioResponse
  \/ ClearAudioQueue
  \/ \E k \in 1..MaxFrames : SourceEnded(k)
  \/ \E k \in 1..MaxFrames : PlayResumed(k)

SpecPlay == Init /\ [][NextPlay]_vars

\* The inbound audio path: a connection, the audio messages of the server,
\* the coordinator's callback and the playback queue it feeds.
NextAudio ==
  \/ Connect(MaxChan)
  \/ Disconnect
  \/ \E c \in ChanIds : ChanOpen(c)
  \/ \E c \in ChanIds : ChanClosed(c)
  \/ \E c \in ChanIds, m \in {x \in Inbound : x.type \in AudioTypes} :
       ChanMessagePlayed(c, m)
  \/ \E k \in 1..MaxFrames : SourceEnded(k)
  \/ \E k \in 1..MaxFrames : PlayResumed(k)

SpecAudio == Init /\ [][NextAudio]_vars

\* SpecPlay under the claim's hypothesis on the host: a started source
\* eventually ends and a suspended call eventually resumes.
SpecPlayLive ==
  /\ SpecPlay
  /\ \A k \in 1..MaxFrames : WF_vars(SourceEnded(k))
  /\ \A k \in 1..MaxFrames : WF_vars(PlayResumed(k))

progVars == <<wsVars, envVars, recVars, capVars, playVars, last, out, cb, acb>>

\* onaudioprocess converts the captured samples
FloatTo16BitPCM ==
  /\ codec.stage = "samples"
  /\ codec' = [codec EXCEPT !.stage = "pcm", !.kind = "Int16Array",
                            !.pcm = floatTo16BitPCM(codec.input)]
  /\ UNCHANGED progVars

\* the samples are converted back
Int16ToFloat32 ==
  /\ codec.stage = "pcm"
  /\ codec' = [codec EXCEPT !.stage = "floats", !.floats = int16ToFloat32(codec.pcm)]
  /\ UNCHANGED progVars

\* appendAudioBuffer encodes the Int16Array frame
ArrayToBase64Frame ==
  /\ codec.stage = "pcm"
  /\ codec' = [codec EXCEPT !.stage = "text",
                            !.text = arrayToBase64(codec.kind, codec.pcm)]
  /\ UNCHANGED progVars

\* a byte buffer is encoded
ArrayToBase64Bytes ==
  /\ codec.stage = "bytes"
  /\ codec' = [codec EXCEPT !.stage = "text",
                            !.text = arrayToBase64(codec.kind, codec.bytes)]
  /\ UNCHANGED progVars

\* the text is decoded
Base64ToUint8Array ==
  /\ codec.stage = "text"
  /\ codec' = [codec EXCEPT !.stage = "decoded",
                            !.back = base64ToUint8Array(codec.text)]
  /\ UNCHANGED progVars

NextCodec ==
  \/ FloatTo16BitPCM
  \/ Int16ToFloat32
  \/ ArrayToBase64Frame
  \/ ArrayToBase64Bytes
  \/ Base64ToUint8Array

\* The codec functions applied to buffers drawn from the input sets.
SpecCodec == InitCodec /\ [][NextCodec]_vars

TypeOK ==
  /\ socket \in {NoSocket} \cup ChanIds
  /\ isConnected \in BOOLEAN /\ isConnecting \in BOOLEAN
  /\ reconnectAttempts \in Nat /\ eventId \in Nat /\ pendingAudioBuffers \in Nat
  /\ amIsRecording \in BOOLEAN /\ appIsRecording \in BOOLEAN
  /\ liveStreams \in Nat /\ liveNodes \in Nat
  /\ isPlaying \in BOOLEAN
  /\ audioQueue \in Seq(1..nEnq)
  /\ awaiting \subseteq 1..nEnq /\ sources \subseteq 1..nEnq


(* ======================= claims C1 .. C10 ============================== *)
CbOnConnect == Call("onConnect", Null, FALSE)
CbOnDisconnect == Call("onDisconnect", Null, FALSE)
LiveChannels == {c \in ChanIds : chan[c].st \in {"connecting", "open"}}

\* C1: connect() called while the machine is connecting or connected is a
\* no-op: no channel is created, the channel reference and every channel are
\* as before, and isConnected, isConnecting, the reconnect counter and the
\* session, conversation and response ids are unchanged.
C1_ConnectNoop ==
  [][(last'.op = "connect" /\ (isConnected \/ isConnecting)) =>
       /\ nChan' = nChan /\ chan' = chan /\ socket' = socket
       /\ isConnected' = isConnected /\ isConnecting' = isConnecting
       /\ reconnectAttempts' = reconnectAttempts
       /\ sessionId' = sessionId /\ conversationId' = conversationId
       /\ currentResponseId' = currentResponseId]_vars

\* connect() has just returned on a connected machine that holds a session
C1_Witness ==
  /\ last.op = "connect" /\ isConnected /\ socket # NoSocket
  /\ sessionId # Null /\ last.sess = sessionId

\* C2: right after the open event of a channel the machine is connected and
\* not connecting, the reconnect counter is 0 whatever it was before, and
\* onConnect has been notified exactly once by that event.
C2_OpenConnects ==
  last.op = "open" =>
    /\ isConnected /\ ~isConnecting
    /\ reconnectAttempts = 0
    /\ cb = <<CbOnConnect>>

\* a channel opened when the counter stood at the ceiling
C2_Witness ==
  /\ last.op = "open" /\ last.ra = maxReconnectAttempts
  /\ isConnected /\ chan[socket].st = "open"

\* C3: a close with a code other than 1000 while the counter is below the
\* ceiling arms exactly one retry timer, adds exactly one to the counter and
\* does not notify onDisconnect.
C3_DropSchedulesOneRetry ==
  [][(last'.op = "close" /\ last'.code # NormalClosure
        /\ reconnectAttempts < maxReconnectAttempts) =>
       /\ BagCardinality(timers') = BagCardinality(timers) + 1
       /\ reconnectAttempts' = reconnectAttempts + 1
       /\ cb' = <<>>]_vars

\* the second drop in a row has armed its retry
C3_Witness ==
  /\ last.op = "close" /\ last.code = AbnormalClosure /\ last.ra = 1
  /\ reconnectAttempts = 2 /\ BagCardinality(timers) = 1 /\ cb = <<>>

\* C4: the retry armed by the k-th drop in a row (the drop that takes the
\* counter to k, k = 1..5) has delay 2000, 3000, 4500, 6750, 10125 ms.
DelayTable == <<2000, 3000, 4500, 6750, 10125>>

C4_BackoffDelays ==
  [][(last'.op = "close" /\ reconnectAttempts' = reconnectAttempts + 1) =>
       /\ reconnectAttempts' \in 1..5
       /\ timers' = timers (+) SetToBag({DelayTable[reconnectAttempts']})]_vars

\* the third drop in a row has armed a retry 4500 ms ahead
C4_Witness ==
  /\ last.op = "close" /\ last.ra = 2 /\ reconnectAttempts = 3
  /\ timers = SetToBag({4500})

C6_CounterResetOnlyOnOpen ==
  /\ [](reconnectAttempts \in 0..maxReconnectAttempts)
  /\ [][reconnectAttempts' < reconnectAttempts =>
          (last'.op = "open" /\ reconnectAttempts' = 0)]_vars

\* disconnect() has run with the counter at the ceiling and left it there
C6_Witness ==
  /\ last.op = "disconnect" /\ last.ra = maxReconnectAttempts
  /\ reconnectAttempts = maxReconnectAttempts /\ cb = <<CbOnDisconnect>>

\* C7: a retry timer that expires while the machine is connecting or
\* connected creates no channel and leaves the channel reference alone, and at
\* most one channel is connecting or open in any state.
C7_OneLiveChannel ==
  /\ [](Cardinality(LiveChannels) <= 1)
  /\ [][(last'.op = "timer" /\ (isConnected \/ isConnecting)) =>
          (nChan' = nChan /\ chan' = chan /\ socket' = socket)]_vars

\* a retry expired on a machine that a manual connect() had already connected
C7_Witness ==
  /\ last.op = "timer" /\ isConnected
  /\ LiveChannels = {socket} /\ nChan >= 2

\* C8: a retry timer that expires after disconnect() (the channel reference
\* is null) is skipped: it creates no channel and the machine stays
\* disconnected.
C8_RetrySkippedAfterDisconnect ==
  [][(last'.op = "timer" /\ socket = NoSocket) =>
       (nChan' = nChan /\ socket' = NoSocket /\ ~isConnecting' /\ ~isConnected')]_vars

\* C9: in every state in which the machine is not connected the session id is
\* null, and right after a close that ends in a terminal disconnect (code
\* 1000, or counter at the ceiling) the machine is disconnected, the session,
\* conversation and response ids are null and onDisconnect has been notified.
C9_TerminalCloseClearsIdentity ==
  /\ ~isConnected => sessionId = Null
  /\ (last.op = "close"
        /\ (last.code = NormalClosure \/ last.ra >= maxReconnectAttempts)) =>
       /\ ~isConnected /\ ~isConnecting
       /\ sessionId = Null /\ conversationId = Null /\ currentResponseId = Null
       /\ cb = <<CbOnDisconnect>>

\* C10: disconnect() called while the machine holds a channel closes that
\* channel and detaches its handlers, and leaves the machine not connected,
\* not connecting, without a channel reference, with the session,
\* conversation and response ids null and the pending counter 0; onDisconnect
\* is notified exactly once.
C10_DisconnectTearsDown ==
  [][(last'.op = "disconnect" /\ socket # NoSocket) =>
       /\ chan'[socket].st \in {"closing", "closed"}
       /\ ~chan'[socket].attached
       /\ ~isConnected' /\ ~isConnecting' /\ socket' = NoSocket
       /\ sessionId' = Null /\ conversationId' = Null
       /\ currentResponseId' = Null
       /\ pendingAudioBuffers' = 0
       /\ cb' = <<CbOnDisconnect>>]_vars

\* disconnect() has run on a machine with a session and uncommitted frames
C10_Witness ==
  /\ last.op = "disconnect" /\ last.sess # Null /\ last.pend > 0
  /\ socket = NoSocket /\ pendingAudioBuffers = 0 /\ cb = <<CbOnDisconnect>>


(* --------------------------- claims C11 .. C20 -------------------------- *)
ApiOps ==
  {"updateSession", "appendAudioBuffer", "commitAudioBuffer",
   "clearAudioBuffer", "createResponse", "cancelResponse"}

\* C11: an event (close or error) of a channel that disconnect() closed
\* changes no state of the machine: no flag, counter or id moves, no retry
\* timer is armed or removed, no channel is created, nothing is sent and no
\* callback (in particular no second onDisconnect) is invoked.
C11_DetachedEventsInert ==
  [][(last'.op \in {"closed", "closing-error"}) =>
       /\ UNCHANGED <<wsVars, recVars>>
       /\ timers' = timers /\ nChan' = nChan
       /\ \A c \in ChanIds : chan[c].st # "closing" => chan'[c] = chan[c]
       /\ cb' = <<>> /\ out' = <<>>]_vars

\* the close event of a channel closed by disconnect() arrives after the user
\* has reconnected and a session is established on the new channel
C11_Witness ==
  /\ last.op = "closed"
  /\ isConnected /\ sessionId # Null
  /\ socket # NoSocket /\ chan[socket].st = "open"

\* C12: disconnect() on a machine that holds no channel (never connected, or
\* just disconnected) changes nothing and does not notify onDisconnect.
C12_DisconnectNoop ==
  [][(last'.op = "disconnect" /\ socket = NoSocket) =>
       /\ UNCHANGED <<wsVars, envVars, recVars>>
       /\ cb' = <<>> /\ out' = <<>>]_vars

\* disconnect() has just returned without notifying, on a machine whose
\* earlier channel was closed by a previous disconnect()
C12_Witness ==
  /\ last.op = "disconnect" /\ cb = <<>>
  /\ socket = NoSocket /\ nChan >= 1
  /\ \E c \in ChanIds : chan[c].st \in {"closing", "closed"}

\* C13: every message sent carries an event id, and the sequence numbers of
\* the ids are consecutive in send order, continuing from the last number
\* used by any earlier task: they strictly increase over the whole run,
\* whatever disconnects and reconnects lie in between, and none repeats.
C13_EventIdsIncrease ==
  [][/\ \A i \in DOMAIN out' : out'[i].event_id = eventId + i
     /\ eventId' = eventId + Len(out')]_vars

\* a message has been sent on the second channel with a sequence number that
\* continues the numbering of the first
C13_Witness ==
  /\ out # <<>>
  /\ out[1].chan = 2
  /\ out[1].event_id >= 2
  /\ eventId = out[Len(out)].event_id


\* C14: an outbound method (session update, append, commit, clear, response
\* create, response cancel) invoked while the machine is not connected --
\* disconnected or still connecting -- writes nothing on any channel and
\* leaves the event id counter where it was; the call returns and the machine
\* goes on (the flags, the channel and the timers are as before).
C14_NoSendWhenNotConnected ==
  [][(last'.op \in ApiOps /\ ~isConnected) =>
       /\ out' = <<>> /\ eventId' = eventId
       /\ UNCHANGED <<socket, isConnected, isConnecting, envVars>>
       /\ cb' = <<>>]_vars

\* commitAudioBuffer() has just returned on a machine that lost its connection
\* with frames pending, while a new channel is still connecting
C14_Witness ==
  /\ last.op = "commitAudioBuffer" /\ last.pend > 0
  /\ ~isConnected /\ isConnecting
  /\ out = <<>>

\* C15: appendAudioBuffer(frame) on a machine that is not connected leaves
\* the pending counter unchanged and sends nothing; on a connected machine it
\* adds exactly one to the pending counter and sends exactly one
\* input_audio_buffer.append message, which carries that frame.
C15_AppendCounts ==
  [][(last'.op = "appendAudioBuffer") =>
       IF isConnected
       THEN /\ pendingAudioBuffers' = pendingAudioBuffers + 1
            /\ Len(out') = 1
            /\ out'[1].type = "input_audio_buffer.append"
            /\ out'[1].val = last'.m.val
            /\ out'[1].chan = socket
       ELSE /\ pendingAudioBuffers' = pendingAudioBuffers
            /\ out' = <<>>]_vars

\* a second frame has just been appended on a connected machine
C15_Witness ==
  /\ last.op = "appendAudioBuffer" /\ last.pend = 1
  /\ isConnected /\ pendingAudioBuffers = 2
  /\ Len(out) = 1 /\ out[1].val \in Frames

\* C16: commitAudioBuffer() on a connected machine with N >= 1 frames pending
\* sends exactly one input_audio_buffer.commit message and resets the pending
\* counter to 0; with the counter at 0 it sends nothing and changes no state.
C16_CommitOnce ==
  [][(last'.op = "commitAudioBuffer") =>
       /\ (isConnected /\ pendingAudioBuffers >= 1) =>
            /\ Len(out') = 1
            /\ out'[1].type = "input_audio_buffer.commit"
            /\ pendingAudioBuffers' = 0
       /\ (pendingAudioBuffers = 0) =>
            /\ out' = <<>> /\ cb' = <<>>
            /\ UNCHANGED <<wsVars, envVars, recVars>>]_vars

\* two frames were pending and one commit has just been sent for them
C16_Witness ==
  /\ last.op = "commitAudioBuffer" /\ last.pend = 2
  /\ pendingAudioBuffers = 0
  /\ Len(out) = 1 /\ out[1].type = "input_audio_buffer.commit"

\* C17: clearAudioBuffer() leaves the pending counter at 0 whatever it was
\* before, 0 included, and on a connected machine sends exactly one
\* input_audio_buffer.clear message.
C17_ClearResets ==
  [][(last'.op = "clearAudioBuffer") =>
       /\ pendingAudioBuffers' = 0
       /\ isConnected =>
            /\ Len(out') = 1
            /\ out'[1].type = "input_audio_buffer.clear"]_vars

\* a clear has just been sent that discarded pending frames
C17_Witness ==
  /\ last.op = "clearAudioBuffer" /\ last.pend >= 1
  /\ pendingAudioBuffers = 0
  /\ Len(out) = 1 /\ out[1].type = "input_audio_buffer.clear"

\* C18: createResponse() on a connected machine sends one response.create
\* request and, connected or not, leaves the active response id as it was;
\* the active response id takes a new value other than null only in the task
\* of an inbound response.created message, and the value is the id carried
\* by that message.
C18_ResponseIdSetByServer ==
  [][/\ (last'.op = "createResponse") =>
          /\ currentResponseId' = currentResponseId
          /\ isConnected =>
               /\ Len(out') = 1 /\ out'[1].type = "response.create"
     /\ (currentResponseId' # currentResponseId /\ currentResponseId' # Null) =>
          /\ last'.op = "message"
          /\ last'.m.type = "response.created"
          /\ currentResponseId' = last'.m.val]_vars

\* a response.create has just been sent while an earlier response is still
\* the active one
C18_Witness ==
  /\ last.op = "createResponse"
  /\ currentResponseId \in ResponseIds
  /\ Len(out) = 1 /\ out[1].type = "response.create"

\* C19: cancelResponse() with no active response sends nothing and changes
\* no state; with an active response, on a connected machine, it sends
\* exactly one response.cancel message whose response_id is the active
\* response id.
C19_CancelNamesActive ==
  [][(last'.op = "cancelResponse") =>
       IF currentResponseId = Null
       THEN /\ out' = <<>> /\ cb' = <<>>
            /\ UNCHANGED <<wsVars, envVars, recVars>>
       ELSE isConnected =>
              /\ Len(out') = 1
              /\ out'[1].type = "response.cancel"
              /\ out'[1].val = currentResponseId]_vars

\* a cancellation has just been sent for the second response announced
C19_Witness ==
  /\ last.op = "cancelResponse"
  /\ Len(out) = 1 /\ out[1].type = "response.cancel"
  /\ out[1].val = "resp_2"


\* C20: no response is active once the response has completed, has been
\* cancelled, or the user has disconnected: the active response id is null
\* right after cancelResponse() has sent a cancellation, right after a
\* response.text.done or response.audio.done message has been handled, and
\* right after disconnect().
C20_ResponseIdCleared ==
  /\ (last.op = "cancelResponse" /\ out # <<>>) => currentResponseId = Null
  /\ (last.op = "message" /\ last.m.parse
        /\ last.m.type \in {"response.text.done", "response.audio.done"}) =>
       currentResponseId = Null
  /\ (last.op = "disconnect") => currentResponseId = Null


(* --------------------------- claims C21 .. C30 -------------------------- *)
\* C21: the task of an inbound session.created message records the session
\* id the message carries and sends exactly one message, a session.update
\* with the PCM16 configuration, on the channel the message came from; being
\* part of the same task, the update precedes every further inbound message
\* and every other outbound message.
C21_SessionCreatedConfigures ==
  [][(last'.op = "message" /\ last'.m.parse /\ last'.m.fields
        /\ last'.m.type = "session.created") =>
       /\ sessionId' = last'.m.val
       /\ Len(out') = 1
       /\ out'[1].type = "session.update"
       /\ out'[1].val = "pcm16"
       /\ out'[1].chan = socket
       /\ out'[1].event_id = eventId + 1]_vars

\* a session.created has just been answered with a session.update on the
\* second channel of the run
C21_Witness ==
  /\ last.op = "message" /\ last.m.type = "session.created" /\ last.m.fields
  /\ sessionId = "sess_1"
  /\ Len(out) = 1 /\ out[1].type = "session.update" /\ out[1].chan = 2

\* C22: an inbound message that parses and whose type is none of the nine
\* consumed types changes no state of the machine (flags, ids, counters,
\* channels, timers, recording state), sends nothing and invokes no callback.
C22_UnknownTypeIgnored ==
  [][(last'.op = "message" /\ last'.m.parse
        /\ last'.m.type \notin ConsumedTypes) =>
       /\ UNCHANGED <<wsVars, envVars, recVars>>
       /\ out' = <<>> /\ cb' = <<>>]_vars

\* a message of an unknown type has just been handled on a machine that
\* holds a session and an active response
C22_Witness ==
  /\ last.op = "message" /\ last.m.parse
  /\ last.m.type \notin ConsumedTypes
  /\ isConnected /\ sessionId # Null /\ currentResponseId # Null

\* C23: an inbound message that does not parse, or lacks the object its case
\* reads, or is of type error, leaves the connection as it was: same channel
\* reference, same flags, every channel in the state it had (the channel the
\* message came on is still open with its handlers, so later messages are
\* still delivered), no timer armed, and no callback invoked.
C23_BadMessageKeepsChannel ==
  [][(last'.op = "message"
        /\ (~last'.m.parse \/ ~last'.m.fields \/ last'.m.type = "error")) =>
       /\ UNCHANGED <<socket, isConnected, isConnecting, reconnectAttempts, envVars>>
       /\ isConnected' /\ socket' # NoSocket
       /\ chan'[socket'] = [st |-> "open", attached |-> TRUE]
       /\ cb' = <<>>]_vars

\* a server error message has just been handled and the machine is still
\* connected with its session
C23_Witness ==
  /\ last.op = "message" /\ last.m.parse /\ last.m.type = "error" /\ last.m.fields
  /\ isConnected /\ socket # NoSocket /\ chan[socket].st = "open"
  /\ sessionId # Null


\* chunks k = 1..nEnq are enqueued in the order of their numbers
Range(q) == {q[i] : i \in DOMAIN q}

\* C24: as long as clearAudioQueue() has not been called, the chunks are
\* rendered in the order they were enqueued and none twice (the start record
\* is strictly increasing); none is skipped unless its render raised an
\* exception; and a source is started only when no other source is playing,
\* that is, after the ended event of the one before.
C24_PlaybackFifo ==
  [][(nClear' = 0) =>
       /\ \A i, j \in DOMAIN rendered' : i < j => rendered'[i] < rendered'[j]
       /\ (failed' = {}) => \A i \in DOMAIN rendered' : rendered'[i] = i
       /\ (rendered' # rendered) =>
            /\ Len(rendered') = Len(rendered) + 1
            /\ SubSeq(rendered', 1, Len(rendered)) = rendered
            /\ sources' = {rendered'[Len(rendered')]}
            /\ sources \subseteq Range(rendered)]_vars

\* three chunks enqueued while the first was playing have all been rendered,
\* in order, and the queue is idle again
C24_Witness ==
  /\ nClear = 0 /\ failed = {}
  /\ rendered = <<1, 2, 3>>
  /\ sources = {} /\ ~isPlaying /\ audioQueue = <<>>

\* C25: at most one render is in flight in every state, whatever enqueues,
\* clears and completions came before.
C25_OneRenderInFlight == Cardinality(sources) <= 1

\* chunk k left the queue without being taken by playNextAudioChunk: it was
\* removed by clearAudioQueue()
Cleared(k) ==
  /\ k <= nEnq
  /\ k \notin Range(audioQueue) \cup awaiting \cup Range(rendered) \cup failed

\* C26: on a host where every started source ends and every suspended call
\* resumes, every queued chunk is eventually rendered unless
\* clearAudioQueue() removes it (a chunk whose own render raises an exception
\* is not counted against the property); and an ended event that finds the
\* queue empty leaves the playing flag false.
C26_PlaybackLive ==
  /\ \A k \in 1..MaxFrames :
       (k \in Range(audioQueue)) ~>
         (k \in Range(rendered) \/ k \in failed \/ Cleared(k))
  /\ [][(last'.op = "ended" /\ audioQueue = <<>>) => ~isPlaying']_vars


CbRecordingStop == Call("onRecordingStop", Null, FALSE)
FrameCallbacks == {i \in DOMAIN acb : acb[i].name = "onAudioData"}

\* C27: startRecording() while capturing and stopRecording() while idle have
\* no effect: the capture state, the pending device requests, the streams
\* and processor nodes held, the coordinator's flags and the protocol machine
\* are unchanged, nothing is sent, and neither onRecordingStart nor
\* onRecordingStop is invoked.
C27_RedundantCaptureOps ==
  [][((last'.op = "amStartRecording" /\ amIsRecording)
        \/ (last'.op = "amStopRecording" /\ ~amIsRecording)) =>
       /\ UNCHANGED <<wsVars, envVars, recVars, capVars, playVars>>
       /\ acb' = <<>> /\ cb' = <<>> /\ out' = <<>>]_vars

\* startRecording() has just returned on a pipeline that is capturing and is
\* connected, with no device request pending
C27_Witness ==
  /\ last.op = "amStartRecording"
  /\ amIsRecording /\ pendingStarts = 0 /\ liveStreams = 1
  /\ isConnected

\* C28: when getUserMedia rejects, the rest of startRecording() changes
\* nothing but the request it ends: the recording flags are as before (an
\* idle pipeline stays idle), no stream and no processor node is acquired, so
\* no frame can come from that start, onRecordingStart is not invoked and
\* nothing is sent.
C28_AcquisitionFailure ==
  [][(last'.op = "startSettled" /\ ~last'.ok) =>
       /\ pendingStarts' = pendingStarts - 1
       /\ UNCHANGED <<amIsRecording, appIsRecording, audioBufferHasData>>
       /\ UNCHANGED <<wsVars, envVars, capVars, playVars>>
       /\ acb' = <<>> /\ cb' = <<>> /\ out' = <<>>]_vars

\* a start has just failed on a connected machine and the pipeline is idle
\* with no stream and no node
C28_Witness ==
  /\ last.op = "startSettled" /\ ~last.ok
  /\ ~amIsRecording /\ ~appIsRecording
  /\ liveStreams = 0 /\ liveNodes = 0 /\ pendingStarts = 0
  /\ isConnected

\* C29: an audioprocess event that finds the pipeline not recording is
\* discarded (no callback, no message, no state change); the frame listener
\* is invoked only while the recording flag is set, which it is from a
\* successful start to the next stop; and an input_audio_buffer.append is
\* sent only by such an event while both recording flags are set, hence none
\* between the stop (and its commit) and the next start.
C29_FramesOnlyWhileRecording ==
  [][/\ (last'.op = "frame" /\ ~amIsRecording) =>
          /\ UNCHANGED <<wsVars, envVars, recVars, capVars, playVars>>
          /\ acb' = <<>> /\ cb' = <<>> /\ out' = <<>>
     /\ (FrameCallbacks' # {}) => (last'.op = "frame" /\ amIsRecording)
     /\ (\E i \in DOMAIN out' : out'[i].type = "input_audio_buffer.append") =>
          (last'.op = "frame" /\ amIsRecording /\ appIsRecording)]_vars

\* a frame has just been discarded: it came from a processor node that is
\* still connected although the recording was stopped, on a connected machine
C29_Witness ==
  /\ last.op = "frame"
  /\ ~amIsRecording /\ ~appIsRecording /\ liveNodes > 0
  /\ isConnected /\ acb = <<>> /\ out = <<>>

\* C30: right after a stopRecording() that stopped a recording the pipeline
\* is idle and holds no capture resource: no MediaStream with live tracks and
\* no connected processor node is left from any earlier startRecording().
C30_StopReleasesAll ==
  (last.op = "amStopRecording" /\ CbRecordingStop \in {acb[i] : i \in DOMAIN acb}) =>
    /\ ~amIsRecording
    /\ liveStreams = 0 /\ liveNodes = 0


(* --------------------------- claims C31 .. C40 -------------------------- *)
CbRecordingStart == Call("onRecordingStart", Null, FALSE)
Calls(q) == {q[i] : i \in DOMAIN q}
OfType(q, type) == {i \in DOMAIN q : q[i].type = type}

\* C31: the coordinator's flag is true exactly when an append was sent since
\* the last recording-started notification; a task that stops the recording
\* sends a commit only if the flag is set, sends exactly one (resetting the
\* pending counter) when the flag is set and the machine is still connected,
\* and sends no commit when no frame was appended.
C31_CommitIffAppended ==
  [][/\ audioBufferHasData' =
          (IF CbRecordingStart \in Calls(acb') THEN FALSE
           ELSE audioBufferHasData \/ OfType(out', "input_audio_buffer.append") # {})
     /\ (CbRecordingStop \in Calls(acb')) =>
          /\ ~appIsRecording'
          /\ Cardinality(OfType(out', "input_audio_buffer.commit")) =
               (IF audioBufferHasData /\ isConnected' THEN 1 ELSE 0)
          /\ (audioBufferHasData /\ isConnected') => pendingAudioBuffers' = 0
     /\ (OfType(out', "input_audio_buffer.commit") # {}) =>
          CbRecordingStop \in Calls(acb')]_vars

\* the stop button has just ended a recording in which frames were appended,
\* and one commit went out
C31_Witness ==
  /\ last.op = "stopRecording" /\ last.pend >= 1 /\ audioBufferHasData
  /\ acb = <<CbRecordingStop>>
  /\ Len(out) = 1 /\ out[1].type = "input_audio_buffer.commit"
  /\ pendingAudioBuffers = 0

\* C32: the recording scenario, step by step.  A recording that starts from
\* idle, as the only capture started, starts with the pending counter at 0; while recording on a connected
\* machine every device frame sends exactly one append, carrying that frame,
\* in the task of the frame (so the appends leave in capture order, with
\* consecutive event ids) and adds one to the counter; nothing else moves the
\* counter or sends an append while the recording lasts, so after k frames
\* the counter is k; stopping that capture then sends exactly one commit and
\* leaves the counter at 0.
C32_RecordingScenario ==
  [][/\ (CbRecordingStart \in Calls(acb') /\ ~appIsRecording /\ liveNodes' = 1) =>
          (pendingAudioBuffers' = 0 /\ out' = <<>>)
     /\ (last'.op = "frame" /\ appIsRecording /\ isConnected) =>
          /\ Len(out') = 1
          /\ out'[1].type = "input_audio_buffer.append"
          /\ out'[1].val = last'.m.val
          /\ out'[1].chan = socket
          /\ out'[1].event_id = eventId + 1
          /\ pendingAudioBuffers' = pendingAudioBuffers + 1
          /\ appIsRecording'
     /\ (last'.op # "frame" /\ appIsRecording /\ appIsRecording') =>
          /\ pendingAudioBuffers' = pendingAudioBuffers
          /\ OfType(out', "input_audio_buffer.append") = {}
     /\ (last'.op \in {"stopRecording", "amStopRecording"} /\ appIsRecording
           /\ isConnected /\ pendingAudioBuffers >= 1 /\ liveNodes = 1) =>
          /\ Len(out') = 1
          /\ out'[1].type = "input_audio_buffer.commit"
          /\ pendingAudioBuffers' = 0
          /\ ~appIsRecording']_vars

\* a recording of two frames has just been stopped: the counter stood at 2,
\* one commit went out after the two appends and the counter is back at 0
C32_Witness ==
  /\ last.op = "amStopRecording" /\ last.pend = 2
  /\ liveNodes = 0 /\ eventId = 3
  /\ isConnected /\ ~appIsRecording /\ ~amIsRecording
  /\ Len(out) = 1 /\ out[1].type = "input_audio_buffer.commit"
  /\ pendingAudioBuffers = 0

\* C33: the task of an inbound response.audio.delta with a payload hands the
\* decoded payload to the coordinator once and enqueues exactly one chunk,
\* behind every chunk already queued (the queue is the old queue with the
\* new chunk at its tail, less its head when the idle queue starts to
\* drain); a delta without payload enqueues nothing; a response.audio.done
\* only delivers the final marker (null, true) and leaves the queue alone.
C33_DeltaEnqueuesOne ==
  [][(last'.op = "message" /\ last'.m.type \in AudioTypes) =>
       IF last'.m.type = "response.audio.delta" /\ last'.m.fields
       THEN /\ cb' = <<Call("onAudioResponse", last'.m.val, FALSE)>>
            /\ nEnq' = nEnq + 1
            /\ LET q == Append(audioQueue, nEnq + 1)
               IN \/ audioQueue' = q /\ isPlaying
                  \/ /\ ~isPlaying /\ audioQueue' = Tail(q)
                     /\ Head(q) \in (sources' \cup awaiting' \cup failed')
                     /\ Head(q) \notin (sources \cup awaiting \cup failed)
       ELSE /\ UNCHANGED playVars
            /\ cb' = IF last'.m.type = "response.audio.done"
                     THEN <<Call("onAudioResponse", Null, TRUE)>>
                     ELSE <<>>]_vars

\* a second delta has just arrived while the first chunk is playing: it
\* waits in the queue
C33_Witness ==
  /\ last.op = "message" /\ last.m.type = "response.audio.delta" /\ last.m.fields
  /\ nEnq = 2 /\ audioQueue = <<2>> /\ sources = {1} /\ isPlaying
  /\ cb = <<Call("onAudioResponse", last.m.val, FALSE)>>

\* C34: in every state (between two tasks) a capture in progress implies a
\* connected machine: whenever the machine stops being connected while
\* recording, the task that handles the loss stops the capture and notifies
\* recording-stopped.
C34_CapturingImpliesConnected ==
  /\ (amIsRecording \/ appIsRecording) => isConnected
  /\ (last.op \in {"close", "disconnect"} /\ ~isConnected) =>
       (~amIsRecording /\ ~appIsRecording)

\* |x - y| <= 1/32768 for two sample values
WithinStep(x, y) ==
  LET g == Gcd(x.d, y.d)
      l == (x.d \div g) * y.d
      m == Abs(x.n * (l \div x.d) - y.n * (l \div y.d))
  IN m <= l \div 32768

\* C35: every sample in [-1, 1] comes back from floatTo16BitPCM followed by
\* int16ToFloat32 within one quantization step, 1/32768, of its value; and a
\* sample above 1 is encoded as 32767, a sample below -1 as -32768.
C35_RoundTripWithinStep ==
  /\ (codec.stage \in {"pcm", "floats"}) =>
       \A i \in DOMAIN codec.input :
         /\ codec.input[i].n > codec.input[i].d => codec.pcm[i] = 32767
         /\ codec.input[i].n < -codec.input[i].d => codec.pcm[i] = -32768
  /\ (codec.stage = "floats") =>
       /\ Len(codec.floats) = Len(codec.input)
       /\ \A i \in DOMAIN codec.input :
            clampSample(codec.input[i]) = codec.input[i] =>
              WithinStep(codec.input[i], codec.floats[i])

\* C36: a byte buffer, or the bytes under an Int16Array frame, comes back
\* unchanged from arrayToBase64 followed by base64ToUint8Array.
C36_Base64RoundTrip ==
  (codec.stage = "decoded") =>
    codec.back = (IF codec.kind = "Int16Array" THEN ViewBytes(codec.pcm)
                  ELSE codec.bytes)

\* the frame [-32768, 32767] went through the text encoding and its four
\* bytes are back
C36_Witness ==
  /\ codec.stage = "decoded" /\ codec.kind = "Int16Array"
  /\ codec.pcm = <<-32768, 32767>>
  /\ codec.back = <<0, 128, 255, 127>>

\* C37: the pending counter counts the appends sent on the current channel
\* since the last commit, clear or open: it is positive only on a connected
\* machine, and a channel that has just opened starts with the counter at 0,
\* so that no count from a dropped channel is carried over.
C37_PendingCounterAccurate ==
  /\ pendingAudioBuffers > 0 => isConnected
  /\ last.op = "open" => pendingAudioBuffers = 0

\* C38: onDisconnect is notified at most once per loss of the connection.
\* No task notifies it twice, and when a task has notified it, a channel
\* event or a disconnect() that comes next, with no connect() and no open in
\* between, does not notify it again.
C38_OneNotificationPerLoss ==
  [][/\ Cardinality({i \in DOMAIN cb' : cb'[i] = CbOnDisconnect}) <= 1
     /\ (CbOnDisconnect \in Calls(cb)
          /\ last'.op \in {"disconnect", "close", "closed", "closing-error", "error"}) =>
         CbOnDisconnect \notin Calls(cb')]_vars

\* C39: overlapping starts yield one capture.  At most one stream and one
\* processor node are ever live (so a device frame reaches the listener
\* through one node only), and recording-started is notified only by a start
\* that finds the pipeline idle.
C39_StartAtomic ==
  [][/\ liveStreams' <= 1 /\ liveNodes' <= 1
     /\ (CbRecordingStart \in Calls(acb')) => ~amIsRecording]_vars

\* C40: on a host that delivers timer and channel events, every
\* unintentional close that arms a retry is followed, sooner or later, by a
\* connected machine or by an onDisconnect notification (the model's limit
\* on the number of channels aside).
C40_NoDropAbandoned ==
  (last.op = "close" /\ last.code # NormalClosure /\ cb = <<>>)
    ~> (isConnected \/ CbOnDisconnect \in Calls(cb) \/ nChan >= ConnChans)

====
